---- MODULE Spec2Model ----
(***************************************************************************)
(* A model of slowmedown.py: the command `slowmedown` (load, time-stretch, *)
(* frequency enhancement, stereo widening, export) and its three transform *)
(* functions.                                                              *)
(*                                                                         *)
(* The command is modelled as a state machine over the shape of           *)
(* audio_data (numpy's .shape tuple), the files on disk and the exit       *)
(* code.  The three transforms are operators; each also has a harness      *)
(* specification that draws its inputs from bounded sets and applies it.   *)
(*                                                                         *)
(* Library calls are modelled by their documented behaviour at the call    *)
(* site: librosa.effects.time_stretch (rate check, output length           *)
(* int(round(n / rate))), scipy.signal.butter (0 < Wn < 1),                *)
(* scipy.signal.filtfilt (input longer than padlen), numpy slicing,        *)
(* concatenate and vstack (shape rules), str.replace, soundfile.write      *)
(* (format from the extension), pydub's AudioSegment.from_wav / export,    *)
(* os.remove / os.rename.                                                  *)
(***************************************************************************)
EXTENDS Integers, Sequences, FiniteSets, TLC

VARIABLES
    pc,          \* position in slowmedown()
    args,        \* the command's arguments and the decoded input
    audio_data,  \* shape of the array bound to audio_data
    stages,      \* transforms called so far, in call order
    output,      \* the output path (a token sequence), <<>> while None
    temp_wav,    \* the temporary path, <<>> before it is computed
    files,       \* the files on disk: path -> content kind
    exit_code,   \* -1 while running, then the process's exit code
    error,       \* the exception that ended the run, "" if none
    fin,         \* harness: the arguments of the function call under test
    fout,        \* harness: what the call returned or raised
    fprev,       \* harness: the result of the call before the last one
    fpc          \* harness: "call", "returned", "again"

vars == <<pc, args, audio_data, stages, output, temp_wav, files, exit_code,
          error, fin, fout, fprev, fpc>>

cmdvars == <<pc, args, audio_data, stages, output, temp_wav, files,
             exit_code, error>>

fnvars == <<fin, fout, fprev, fpc>>

(***************************************************************************)
(* Values shared by the operators.                                         *)
(***************************************************************************)

\* A call's outcome: a returned value, or the exception raised.
Ok(v) == [ok |-> TRUE, val |-> v, err |-> ""]

Err(e) == [ok |-> FALSE, val |-> <<>>, err |-> e]

Abs(i) == IF i < 0 THEN -i ELSE i

\* A float argument as an exact fraction num/den, den > 0.
Frac(n, d) == [num |-> n, den |-> d]

\* Python 3 round() of the non-negative quotient a/b: to nearest, ties to even.
PyRound(a, b) ==
    LET q == a \div b
        r == a % b
    IN  IF 2 * r < b THEN q
        ELSE IF 2 * r > b THEN q + 1
        ELSE IF q % 2 = 0 THEN q ELSE q + 1

(***************************************************************************)
(* change_speed_preserve_pitch                                             *)
(***************************************************************************)

\* Fault variant of time_stretch: only a zero rate is rejected.
time_stretch_abs(n, rate) ==
    IF rate.num = 0
    THEN Err("ParameterError")
    ELSE Ok(PyRound(n * rate.den, Abs(rate.num)))

\* Fault variant of time_stretch: the length is multiplied by the rate.
time_stretch_mul(n, rate) ==
    IF rate.num <= 0
    THEN Err("ParameterError")
    ELSE Ok(PyRound(n * rate.num, rate.den))

\* librosa.effects.time_stretch(y, rate): raises ParameterError unless
\* rate > 0; the phase-vocoded signal is fixed to int(round(n / rate))
\* samples.  n is the input's sample count, the result its sample count.
time_stretch(n, rate) ==
    IF rate.num <= 0
    THEN Err("ParameterError")
    ELSE Ok(PyRound(n * rate.den, rate.num))

change_speed_preserve_pitch(n, sr, speed_factor) ==
    time_stretch(n, speed_factor)

(***************************************************************************)
(* enhance_guitar_frequencies                                              *)
(***************************************************************************)

\* Sample values are fixed-point integers: the sample 1.0 is Unit.  Samples
\* are finite; float infinities, NaN and overflow are not represented.
Unit == 1

\* a / f for an integer a and a fraction f.
DivByFrac(a, f) == Frac(a * f.den, f.num)

FracLt(f, g) == f.num * g.den < g.num * f.den

Zero == Frac(0, 1)

One == Frac(1, 1)

\* Fault variant of nyquist: the sample rate itself.
nyquist_full(sr) == Frac(sr, 1)

\* Lines 39-43: the band edges as fractions of the Nyquist frequency.
nyquist(sr) == Frac(sr, 2)

low_freq(sr) == DivByFrac(60, nyquist(sr))

high_freq(sr) == DivByFrac(5000, nyquist(sr))

\* scipy.signal.butter(4, [low, high], btype='band', output='sos'): a digital
\* design raises ValueError unless every critical frequency lies strictly
\* between 0 and 1 (and the band's edges are in order).
butter(Wn) ==
    IF /\ \A i \in 1..Len(Wn) : FracLt(Zero, Wn[i]) /\ FracLt(Wn[i], One)
       /\ FracLt(Wn[1], Wn[2])
    THEN Ok(<<"sos">>)
    ELSE Err("ValueError(butter)")

\* The gain of the filtered signal in the mix (line 50).
mix_gain == Frac(4, 10)

\* audio_data + filtered * 0.4, each sample an exact fraction of 1.0.
mix(x, filtered) ==
    [i \in 1..Len(x) |->
        Frac(mix_gain.den * x[i] + mix_gain.num * filtered[i],
             mix_gain.den * Unit)]

\* np.max(np.abs(enhanced)) of a non-empty signal whose samples share one
\* denominator.
RECURSIVE MaxAbsNum(_)
MaxAbsNum(e) ==
    IF Len(e) = 1 THEN Abs(e[1].num)
    ELSE LET m == MaxAbsNum(Tail(e))
         IN  IF Abs(e[1].num) > m THEN Abs(e[1].num) ELSE m

np_max_abs(e) == Frac(MaxAbsNum(e), e[1].den)

\* Fault variant of normalize: rescales only above a peak of 2.0.
normalize_twice(enhanced) ==
    LET max_val == np_max_abs(enhanced)
    IN  IF FracLt(Frac(2, 1), max_val)
        THEN [i \in 1..Len(enhanced) |->
                Frac(enhanced[i].num * max_val.den,
                     enhanced[i].den * max_val.num)]
        ELSE enhanced

\* Fault variant of normalize: rescales every non-silent signal to peak 1.0.
normalize_always(enhanced) ==
    LET max_val == np_max_abs(enhanced)
    IN  IF max_val.num > 0
        THEN [i \in 1..Len(enhanced) |->
                Frac(enhanced[i].num * max_val.den,
                     enhanced[i].den * max_val.num)]
        ELSE enhanced

\* Lines 53-55: divide by the peak when the peak exceeds 1.0.
normalize(enhanced) ==
    LET max_val == np_max_abs(enhanced)
    IN  IF FracLt(One, max_val)
        THEN [i \in 1..Len(enhanced) |->
                Frac(enhanced[i].num * max_val.den,
                     enhanced[i].den * max_val.num)]
        ELSE enhanced

\* The outcome of enhance_guitar_frequencies by the input's sample count
\* alone: the filter design may raise, and np.max raises on an empty array.
enhance_outcome(n, sr) ==
    LET sos == butter(<<low_freq(sr), high_freq(sr)>>)
    IN  IF ~sos.ok THEN sos
        ELSE IF n = 0 THEN Err("ValueError(max)")
        ELSE Ok(<<n>>)

\* enhance_guitar_frequencies on a mono signal x; filtered is what
\* signal.sosfilt(sos, x) returns for it (a signal of x's length).
enhance_guitar_frequencies(x, sr, filtered) ==
    LET r == enhance_outcome(Len(x), sr)
    IN  IF ~r.ok THEN r ELSE Ok(normalize(mix(x, filtered)))

(***************************************************************************)
(* mono_to_stereo_effect                                                   *)
(*                                                                         *)
(* A signal is [shape, data]: shape is numpy's shape tuple; the data of a  *)
(* 1-D signal is its samples, the data of a 2-D signal its rows.  A row is *)
(* [s, lowpass, gain]: the samples s, passed through the zero-phase        *)
(* lowpass when lowpass is set, times gain.                                *)
(***************************************************************************)

Signal(sh, d) == [shape |-> sh, data |-> d]

Row(x) == [s |-> x, lowpass |-> FALSE, gain |-> One]

\* The Haas delay in seconds (line 75) and the channel gains (lines 85-86).
haas_delay == Frac(15, 1000)

left_gain == Frac(95, 100)

right_gain == Frac(85, 100)

\* int(0.015 * sr)
delay_samples(sr) == (haas_delay.num * sr) \div haas_delay.den

\* np.zeros(k)
zeros(k) == [i \in 1..k |-> 0]

\* len(x[:-d]) for a 1-D x of n samples: -0 is 0, so x[:-0] is x[:0].
neg_slice_len(n, d) == IF d = 0 \/ d >= n THEN 0 ELSE n - d

\* x[:-d]
neg_slice(x, d) == SubSeq(x, 1, neg_slice_len(Len(x), d))

\* Line 78: np.concatenate([np.zeros(delay_samples), audio_data[:-delay_samples]])
delayed(x, d) == zeros(d) \o neg_slice(x, d)

\* signal.iirfilter(2, 0.5, ...) gives three b and three a coefficients, and
\* signal.filtfilt pads by padlen = 3 * max(len(a), len(b)) samples.
iir_order == 2

padlen == 3 * (iir_order + 1)

\* Line 81: the coefficients b = (b0, 2 b0, b0), a = (1, 0, a2) of the
\* half-band Butterworth lowpass, a2 = 3 - 2 sqrt(2), b0 = (1 + a2) / 4, in
\* ten-thousandths.
iirfilter == [b |-> <<2929, 5858, 2929>>, a |-> <<10000, 0, 1716>>]

\* 1.0 on the scale of the coefficients; filter values are kept on it too.
fixed_one == iirfilter.a[1]

\* Coefficient c times value v, rounded to the nearest step of the scale.
fmul(c, v) == (c * v + fixed_one \div 2) \div fixed_one

\* signal.lfilter_zi(b, a): the filter state of the unit step's steady state.
lfilter_zi ==
    <<iirfilter.b[2] + iirfilter.b[3] - iirfilter.a[2] - iirfilter.a[3],
      iirfilter.b[3] - iirfilter.a[3]>>

\* signal.lfilter(b, a, x, zi=z), transposed direct form II; y is the output
\* so far.
RECURSIVE lfilter(_, _, _)
lfilter(x, z, y) ==
    IF Len(y) = Len(x) THEN y
    ELSE LET v == x[Len(y) + 1]
             o == fmul(iirfilter.b[1], v) + z[1]
         IN  lfilter(x,
                     <<fmul(iirfilter.b[2], v) - fmul(iirfilter.a[2], o) + z[2],
                       fmul(iirfilter.b[3], v) - fmul(iirfilter.a[3], o)>>,
                     Append(y, o))

\* x[::-1]
reverse(x) == [i \in 1..Len(x) |-> x[Len(x) + 1 - i]]

\* filtfilt's default padding (padtype='odd'): n samples on each side, the
\* signal reflected about its end points.
odd_ext(x, n) ==
    [j \in 1..n |-> 2 * x[1] - x[n + 2 - j]]
    \o x
    \o [j \in 1..n |-> 2 * x[Len(x)] - x[Len(x) - j]]

\* Line 82: signal.filtfilt(b, a, x) for len(x) > padlen: pad, filter forward
\* from the steady state of the first sample, filter the reversed result the
\* same way, reverse, drop the padding.
filtfilt(x) ==
    LET ext == odd_ext(x, padlen)
        fwd == lfilter(ext, <<fmul(lfilter_zi[1], ext[1]),
                              fmul(lfilter_zi[2], ext[1])>>, <<>>)
        rev == reverse(fwd)
        bwd == lfilter(rev, <<fmul(lfilter_zi[1], rev[1]),
                              fmul(lfilter_zi[2], rev[1])>>, <<>>)
        y == reverse(bwd)
    IN  SubSeq(y, padlen + 1, Len(y) - padlen)

\* The samples of a row (lines 82, 85, 86) as numerators over
\* row.gain.den * fixed_one * Unit.
row_samples(row) ==
    LET x == [i \in 1..Len(row.s) |-> row.s[i] * fixed_one]
        y == IF row.lowpass THEN filtfilt(x) ELSE x
    IN  [i \in 1..Len(y) |-> row.gain.num * y[i]]

\* np.max(np.abs(row)) <= 1.0
row_within_unit(row) ==
    \A i \in 1..Len(row.s) :
        Abs(row_samples(row)[i]) <= row.gain.den * fixed_one * Unit

\* Fault variant of is_stereo: tests the sample axis.
is_stereo_axis1(shape) == Len(shape) > 1 /\ shape[2] = 2

\* Line 71: the input is already stereo.
is_stereo(shape) == Len(shape) > 1 /\ shape[1] = 2

\* The outcome of mono_to_stereo_effect by the input's shape alone.
\* concatenate raises when the slice is not 1-D like np.zeros(d); filtfilt
\* raises unless its input is longer than padlen; vstack raises unless both
\* rows have one length.
mono_to_stereo_outcome(shape, sr) ==
    IF is_stereo(shape) THEN Ok(shape)
    ELSE IF Len(shape) > 1 THEN Err("ValueError(concatenate)")
    ELSE LET n == shape[1]
             d == delay_samples(sr)
             right_len == d + neg_slice_len(n, d)
         IN  IF right_len <= padlen THEN Err("ValueError(filtfilt)")
             ELSE IF right_len # n THEN Err("ValueError(vstack)")
             ELSE Ok(<<2, n>>)

mono_to_stereo_effect(sig, sr) ==
    LET r == mono_to_stereo_outcome(sig.shape, sr)
    IN  IF ~r.ok THEN r
        ELSE IF is_stereo(sig.shape) THEN Ok(sig)
        ELSE LET left_channel ==
                     [s |-> sig.data, lowpass |-> FALSE, gain |-> left_gain]
                 right_channel ==
                     [s |-> delayed(sig.data, delay_samples(sr)),
                      lowpass |-> TRUE, gain |-> right_gain]
             IN  Ok(Signal(r.val, <<left_channel, right_channel>>))

(***************************************************************************)
(* Paths and files.  A path is a sequence of tokens; an extension (".mp3") *)
(* is one token, so str.replace of an extension acts token by token.       *)
(***************************************************************************)

Formats == {"mp3", "wav", "ogg"}

DotExt(fmt) ==
    CASE fmt = "mp3" -> ".mp3"
      [] fmt = "wav" -> ".wav"
      [] fmt = "ogg" -> ".ogg"

IsExt(tok) == tok \in {".mp3", ".wav", ".ogg", ".flac"}

\* os.path.splitext(path)[0]
splitext_base(path) ==
    IF Len(path) > 1 /\ IsExt(path[Len(path)])
    THEN SubSeq(path, 1, Len(path) - 1)
    ELSE path

\* path.replace(old, new): every occurrence of the token old becomes new.
RECURSIVE str_replace(_, _, _)
str_replace(path, old, new) ==
    IF path = <<>> THEN <<>>
    ELSE (IF Head(path) = old THEN new ELSE <<Head(path)>>)
         \o str_replace(Tail(path), old, new)

\* Line 134: f"{base}_slowed.{format}"
default_output(input_file, fmt) ==
    splitext_base(input_file) \o <<"_slowed", DotExt(fmt)>>

\* Line 144: output.replace(f'.{format}', '_temp.wav')
temp_path(out, fmt) == str_replace(out, DotExt(fmt), <<"_temp", ".wav">>)

\* soundfile.write(path, ...) picks the container from the extension and
\* raises when there is none it knows; MP3 depends on the libsndfile build.
sf_write(path, mp3_ok) ==
    LET ext == path[Len(path)]
    IN  CASE ext = ".wav" -> Ok(<<"WAV">>)
          [] ext = ".flac" -> Ok(<<"FLAC">>)
          [] ext = ".ogg" -> Ok(<<"OGG">>)
          [] ext = ".mp3" /\ mp3_ok -> Ok(<<"MP3">>)
          [] OTHER -> Err("TypeError(soundfile)")

\* The file system after writing kind to path, and after deleting path.
fs_write(fs, path, kind) ==
    [p \in DOMAIN fs \cup {path} |-> IF p = path THEN kind ELSE fs[p]]

fs_remove(fs, path) == [p \in DOMAIN fs \ {path} |-> fs[p]]

\* os.rename(src, dst); renaming a file onto itself changes nothing.
fs_rename(fs, src, dst) ==
    IF src = dst THEN fs ELSE fs_remove(fs_write(fs, dst, fs[src]), src)

\* Lines 149-151 and 153-155: AudioSegment.from_wav(temp_wav), export to
\* output, os.remove(temp_wav).  from_wav forces the WAV reader, which
\* rejects a file that sf.write made in another container.
convert(fs, temp, out, kind) ==
    IF fs[temp] # "WAV"
    THEN Err("CouldntDecodeError")
    ELSE Ok(fs_remove(fs_write(fs, out, kind), temp))

(***************************************************************************)
(* The command slowmedown().                                               *)
(***************************************************************************)

\* Fault variant of After: the enhancement precedes the speed change.
After_enhance_first(p) ==
    CASE p = "load" -> "enhance"
      [] p = "enhance" -> "speed"
      [] p = "speed" -> "stereo"
      [] p = "stereo" -> "output"
      [] p = "output" -> "write"
      [] p = "write" -> "convert"
      [] p = "convert" -> "done"

\* The statements of slowmedown() in program order (lines 105-159).
After(p) ==
    CASE p = "load" -> "speed"
      [] p = "speed" -> "enhance"
      [] p = "enhance" -> "stereo"
      [] p = "stereo" -> "output"
      [] p = "output" -> "write"
      [] p = "write" -> "convert"
      [] p = "convert" -> "done"

\* Fault variant of speed_changed: the stretch is never skipped.
speed_changed_always(speed) == TRUE

\* Line 113: speed != 1.0

speed_changed(speed) == speed.num # speed.den

\* The last axis of a shape: the samples of a 1-D or channel-major array.
n_samples(shape) == shape[Len(shape)]

\* An uncaught exception ends the command with exit code 1.
Fail(e) ==
    /\ pc' = "failed"
    /\ error' = e
    /\ exit_code' = 1

\* Line 108: librosa.load(input_file, sr=None, mono=True)
Load ==
    /\ pc = "load"
    /\ audio_data' = <<args.n0>>
    /\ pc' = After("load")
    /\ UNCHANGED <<args, stages, output, temp_wav, files, exit_code, error>>
    /\ UNCHANGED fnvars

\* Lines 112-115
SpeedStep ==
    /\ pc = "speed"
    /\ IF speed_changed(args.speed)
       THEN LET r == change_speed_preserve_pitch(n_samples(audio_data),
                                                 args.sr, args.speed)
            IN  /\ stages' = Append(stages, "stretch")
                /\ IF r.ok
                   THEN /\ audio_data' = <<r.val>>
                        /\ pc' = After("speed")
                        /\ UNCHANGED <<exit_code, error>>
                   ELSE /\ Fail(r.err)
                        /\ UNCHANGED audio_data
       ELSE /\ pc' = After("speed")
            /\ UNCHANGED <<audio_data, stages, exit_code, error>>
    /\ UNCHANGED <<args, output, temp_wav, files>>
    /\ UNCHANGED fnvars

\* Lines 117-120
EnhanceStep ==
    /\ pc = "enhance"
    /\ IF args.enhance_guitar
       THEN LET r == enhance_outcome(n_samples(audio_data), args.sr)
            IN  /\ stages' = Append(stages, "enhance")
                /\ IF r.ok
                   THEN /\ audio_data' = r.val
                        /\ pc' = After("enhance")
                        /\ UNCHANGED <<exit_code, error>>
                   ELSE /\ Fail(r.err)
                        /\ UNCHANGED audio_data
       ELSE /\ pc' = After("enhance")
            /\ UNCHANGED <<audio_data, stages, exit_code, error>>
    /\ UNCHANGED <<args, output, temp_wav, files>>
    /\ UNCHANGED fnvars

\* Lines 122-129
StereoStep ==
    /\ pc = "stereo"
    /\ IF args.stereo
       THEN LET r == mono_to_stereo_outcome(audio_data, args.sr)
            IN  /\ stages' = Append(stages, "widen")
                /\ IF r.ok
                   THEN /\ audio_data' = r.val
                        /\ pc' = After("stereo")
                        /\ UNCHANGED <<exit_code, error>>
                   ELSE /\ Fail(r.err)
                        /\ UNCHANGED audio_data
       ELSE /\ audio_data' = IF Len(audio_data) = 1
                             THEN <<1, audio_data[1]>>
                             ELSE audio_data
            /\ pc' = After("stereo")
            /\ UNCHANGED <<stages, exit_code, error>>
    /\ UNCHANGED <<args, output, temp_wav, files>>
    /\ UNCHANGED fnvars

\* Lines 131-141: the output name, and the transpose to channels-last.
OutputStep ==
    /\ pc = "output"
    /\ output' = IF args.output = <<>>
                 THEN default_output(args.input_file, args.format)
                 ELSE args.output
    /\ audio_data' = IF Len(audio_data) = 2
                     THEN <<audio_data[2], audio_data[1]>>
                     ELSE audio_data
    /\ pc' = After("output")
    /\ UNCHANGED <<args, stages, temp_wav, files, exit_code, error>>
    /\ UNCHANGED fnvars

\* Lines 143-145
WriteTemp ==
    /\ pc = "write"
    /\ LET t == temp_path(output, args.format)
           r == sf_write(t, args.sf_mp3)
       IN  /\ temp_wav' = t
           /\ IF r.ok
              THEN /\ files' = fs_write(files, t, r.val[1])
                   /\ pc' = After("write")
                   /\ UNCHANGED <<exit_code, error>>
              ELSE /\ Fail(r.err)
                   /\ UNCHANGED files
    /\ UNCHANGED <<args, audio_data, stages, output>>
    /\ UNCHANGED fnvars

\* Lines 147-159
Convert ==
    /\ pc = "convert"
    /\ IF args.format = "mp3" \/ args.format = "ogg"
       THEN LET r == convert(files, temp_wav, output,
                             IF args.format = "mp3" THEN "MP3" ELSE "OGG")
            IN  IF r.ok
                THEN /\ files' = r.val
                     /\ pc' = After("convert")
                     /\ exit_code' = 0
                     /\ UNCHANGED error
                ELSE /\ Fail(r.err)
                     /\ UNCHANGED files
       ELSE /\ files' = fs_rename(files, temp_wav, output)
            /\ pc' = After("convert")
            /\ exit_code' = 0
            /\ UNCHANGED error
    /\ UNCHANGED <<args, audio_data, stages, output, temp_wav>>
    /\ UNCHANGED fnvars

(***************************************************************************)
(* The inputs the specifications draw from.                                *)
(***************************************************************************)

\* --speed: negative, zero, slower, unchanged, faster.
Speeds ==
    {Frac(-1, 1), Frac(0, 1), Frac(1, 2), Frac(3, 4), Frac(1, 1),
     Frac(3, 2), Frac(2, 1), Frac(3, 1)}

\* Decoded sample counts and sample rates of the command's input file.
InputLengths == {1, 10, 400, 22050}

InputRates == {50, 8000, 22050}

InputFiles == {<<"song", ".mp3">>, <<"take", ".wav", ".mp3">>}

\* -o: not given (<<>>), or a path with or without the format's extension.
OutputArgs ==
    {<<>>, <<"out", ".mp3">>, <<"out", ".wav">>, <<"out", ".ogg">>,
     <<"out", ".flac">>, <<"out">>}

NoCall == [fn |-> "none"]

NoResult == Err("")

CmdIdle ==
    /\ pc = "idle"
    /\ args = [n0 |-> 0]
    /\ audio_data = <<>>
    /\ stages = <<>>
    /\ output = <<>>
    /\ temp_wav = <<>>
    /\ files = <<>>
    /\ exit_code = -1
    /\ error = ""

FnIdle ==
    /\ fin = NoCall
    /\ fout = NoResult
    /\ fprev = NoResult
    /\ fpc = "idle"

\* The command is started on an existing input file (click.Path(exists=True)).
Init ==
    /\ pc = "load"
    /\ args \in [n0 : InputLengths, sr : InputRates, speed : Speeds,
                 enhance_guitar : BOOLEAN, stereo : BOOLEAN,
                 output : OutputArgs, format : Formats,
                 input_file : InputFiles, sf_mp3 : BOOLEAN]
    /\ audio_data = <<>>
    /\ stages = <<>>
    /\ output = <<>>
    /\ temp_wav = <<>>
    /\ files = [p \in {args.input_file} |-> "MP3"]
    /\ exit_code = -1
    /\ error = ""
    /\ FnIdle

Next ==
    \/ Load
    \/ SpeedStep
    \/ EnhanceStep
    \/ StereoStep
    \/ OutputStep
    \/ WriteTemp
    \/ Convert

Spec == Init /\ [][Next]_vars

(***************************************************************************)
(* change_speed_preserve_pitch called on its own.                          *)
(***************************************************************************)

MaxLenS == 8

StretchLengths == (1..MaxLenS) \cup {2047, 2048, 4096, 22050}

InitStretch ==
    /\ CmdIdle
    /\ fin \in [fn : {"stretch"}, n : StretchLengths, sr : {22050},
                rate : Speeds]
    /\ fout = NoResult
    /\ fprev = NoResult
    /\ fpc = "call"

CallStretch ==
    /\ fpc = "call"
    /\ fin.fn = "stretch"
    /\ fout' = change_speed_preserve_pitch(fin.n, fin.sr, fin.rate)
    /\ fpc' = "returned"
    /\ UNCHANGED <<fin, fprev>>
    /\ UNCHANGED cmdvars

SpecStretch == InitStretch /\ [][CallStretch]_vars

(***************************************************************************)
(* enhance_guitar_frequencies called on its own.                           *)
(***************************************************************************)

MaxLenE == 2

MaxAmp == 2

Samples == (-MaxAmp)..MaxAmp

SignalsOfLen(n) == [1..n -> Samples]

EnhanceRates == {100, 10000, 10001, 22050, 44100}

InitEnhance ==
    /\ CmdIdle
    /\ \E n \in 0..MaxLenE :
          fin \in [fn : {"enhance"}, x : SignalsOfLen(n),
                   sr : EnhanceRates, filtered : SignalsOfLen(n)]
    /\ fout = NoResult
    /\ fprev = NoResult
    /\ fpc = "call"

CallEnhance ==
    /\ fpc = "call"
    /\ fin.fn = "enhance"
    /\ fout' = enhance_guitar_frequencies(fin.x, fin.sr, fin.filtered)
    /\ fpc' = "returned"
    /\ UNCHANGED <<fin, fprev>>
    /\ UNCHANGED cmdvars

SpecEnhance == InitEnhance /\ [][CallEnhance]_vars

(***************************************************************************)
(* mono_to_stereo_effect called on its own, and on its own result.         *)
(***************************************************************************)

MaxLenW == 16

WidenRates == {50, 100, 200, 700, 1000, 1200}

\* Test signals: a ramp (every sample identifies its position) and a
\* full-scale alternation.
Ramp(n) == [i \in 1..n |-> i]

Alternation(n) == [i \in 1..n |-> IF i % 2 = 1 THEN Unit ELSE -Unit]

MonoInputs == {Signal(<<Len(x)>>, x) :
                  x \in UNION {{Ramp(n), Alternation(n)} : n \in 0..MaxLenW}}

\* np.vstack([x, x]) and x.reshape(1, -1)
StereoInputs == {Signal(<<2, Len(m.data)>>, <<Row(m.data), Row(m.data)>>) :
                    m \in MonoInputs}

OneRowInputs == {Signal(<<1, Len(m.data)>>, <<Row(m.data)>>) :
                    m \in MonoInputs}

\* Every signal of the shortest length filtfilt accepts whose samples are all
\* at full scale, +1.0 or -1.0.
FullScaleInputs ==
    {Signal(<<padlen + 1>>, x) : x \in [1..(padlen + 1) -> {Unit, -Unit}]}

InitWiden ==
    /\ CmdIdle
    /\ fin \in [fn : {"widen"},
                sig : MonoInputs \cup StereoInputs \cup OneRowInputs
                      \cup FullScaleInputs,
                sr : WidenRates]
    /\ fout = NoResult
    /\ fprev = NoResult
    /\ fpc = "call"

CallWiden ==
    /\ fpc = "call"
    /\ fin.fn = "widen"
    /\ fout' = mono_to_stereo_effect(fin.sig, fin.sr)
    /\ fpc' = "returned"
    /\ UNCHANGED <<fin, fprev>>
    /\ UNCHANGED cmdvars

\* The result of a call that returned is passed to the function again.
CallWidenAgain ==
    /\ fpc = "returned"
    /\ fin.fn = "widen"
    /\ fout.ok
    /\ fprev' = fout
    /\ fin' = [fin EXCEPT !.sig = fout.val]
    /\ fout' = mono_to_stereo_effect(fout.val, fin.sr)
    /\ fpc' = "again"
    /\ UNCHANGED cmdvars

NextWiden == CallWiden \/ CallWidenAgain

SpecWiden == InitWiden /\ [][NextWiden]_vars

(***************************************************************************)
(* Properties.                                                             *)
(***************************************************************************)

StageRank(st) ==
    CASE st = "stretch" -> 1
      [] st = "enhance" -> 2
      [] st = "widen" -> 3

PastSpeedStep == pc \notin {"load", "speed"}

\* C1: the transforms a run calls are called in the order time-stretch,
\* frequency enhancement, stereo widening, each at most once, and widening
\* is the last transform called, whatever the options.
C1_PipelineOrder ==
    /\ \A i, j \in 1..Len(stages) :
          i < j => StageRank(stages[i]) < StageRank(stages[j])
    /\ \A i \in 1..Len(stages) : stages[i] = "widen" => i = Len(stages)

C1_Witness ==
    /\ pc = "done"
    /\ stages = <<"stretch", "enhance", "widen">>

\* C2: with a speed factor <= 0 the stretch raises ParameterError and returns
\* no signal; the command ends there with a non-zero exit code, audio_data is
\* still the loaded signal, no later transform has been called and no file
\* has been written.
C2_NonPositiveFactorFails ==
    (args.speed.num <= 0 /\ PastSpeedStep) =>
        /\ ~change_speed_preserve_pitch(args.n0, args.sr, args.speed).ok
        /\ pc = "failed"
        /\ error = "ParameterError"
        /\ exit_code = 1
        /\ stages = <<"stretch">>
        /\ audio_data = <<args.n0>>
        /\ DOMAIN files = {args.input_file}

C2_Witness ==
    /\ pc = "failed"
    /\ args.speed = Frac(0, 1)
    /\ error = "ParameterError"
    /\ args.enhance_guitar
    /\ args.stereo

\* C3 as stated: with a speed factor of exactly 1.0 the command still calls
\* the stretch.
C3_Original ==
    (args.speed.num = args.speed.den /\ PastSpeedStep) =>
        "stretch" \in {stages[i] : i \in 1..Len(stages)}

\* C3 as amended: with a speed factor of exactly 1.0 the command does not
\* call the stretch and the signal keeps its sample count; the function
\* change_speed_preserve_pitch itself, called with 1.0, returns a signal of
\* its input's sample count by the same length rule as for any other factor.
C3_UnitFactorSkippedByCommand ==
    /\ (args.speed.num = args.speed.den /\ PastSpeedStep) =>
          /\ "stretch" \notin {stages[i] : i \in 1..Len(stages)}
          /\ pc = "enhance" => audio_data = <<args.n0>>
    /\ \A n \in InputLengths :
          change_speed_preserve_pitch(n, 22050, Frac(1, 1)) = Ok(n)

C3_Witness ==
    /\ pc = "enhance"
    /\ args.speed = Frac(1, 1)
    /\ stages = <<>>
    /\ audio_data = <<22050>>

\* C4: for a factor f > 0 the stretch returns, and the returned sample count
\* differs from n / f by at most 2048 samples.
C4_LengthWithinOneFrame ==
    (fpc = "returned" /\ fin.rate.num > 0) =>
        /\ fout.ok
        /\ Abs(fout.val * fin.rate.num - fin.n * fin.rate.den)
              <= 2048 * fin.rate.num

C4_Witness ==
    /\ fpc = "returned"
    /\ fin.n = 22050
    /\ fin.rate = Frac(3, 4)
    /\ fout = Ok(29400)

\* C5: no sample of a signal that enhance returns has absolute value above
\* 1.0, also when input samples lie outside [-1.0, 1.0].
C5_EnhanceNeverClips ==
    (fpc = "returned" /\ fout.ok) =>
        \A i \in 1..Len(fout.val) :
            Abs(fout.val[i].num) <= Abs(fout.val[i].den)

C5_Witness ==
    /\ fpc = "returned"
    /\ fout.ok
    /\ \E i \in 1..Len(fin.x) : Abs(fin.x[i]) > Unit
    /\ \E i \in 1..Len(fout.val) : Abs(fout.val[i].num) = Abs(fout.val[i].den)

\* The mix original + 0.4 * filtered of the call under test, in tenths of a
\* sample unit, and its peak.
C6_Mix == [i \in 1..Len(fin.x) |-> 10 * fin.x[i] + 4 * fin.filtered[i]]

C6_Peak ==
    CHOOSE p \in {Abs(C6_Mix[i]) : i \in 1..Len(fin.x)} :
        \A j \in 1..Len(fin.x) : Abs(C6_Mix[j]) <= p

\* C6: when the peak of the mix is at most 1.0, enhance returns the mix
\* sample for sample; when it exceeds 1.0 every returned sample is the mix
\* sample divided by the peak, so the returned peak is exactly 1.0 and the
\* ratios between samples are those of the mix.
C6_RescaleOnlyAbovePeak ==
    (fpc = "returned" /\ fout.ok) =>
        /\ Len(fout.val) = Len(fin.x)
        /\ IF C6_Peak <= 10 * Unit
           THEN \A i \in 1..Len(fin.x) :
                   fout.val[i].num * 10 * Unit = C6_Mix[i] * fout.val[i].den
           ELSE /\ \A i \in 1..Len(fin.x) :
                      fout.val[i].num * C6_Peak = C6_Mix[i] * fout.val[i].den
                /\ \E i \in 1..Len(fin.x) :
                      Abs(fout.val[i].num) = Abs(fout.val[i].den)
                /\ \A i \in 1..Len(fin.x) :
                      Abs(fout.val[i].num) <= Abs(fout.val[i].den)
                /\ \A i, j \in 1..Len(fin.x) :
                      fout.val[i].num * fout.val[j].den * C6_Mix[j]
                        = fout.val[j].num * fout.val[i].den * C6_Mix[i]

C6_Witness ==
    /\ fpc = "returned"
    /\ fout.ok
    /\ Len(fin.x) = 2
    /\ C6_Peak > 10 * Unit
    /\ C6_Mix[1] # 0
    /\ Abs(C6_Mix[1]) < Abs(C6_Mix[2])

\* C7: widen returns an input that has 2 channels unchanged, and widen
\* applied to a result of widen returns that result.
C7_WidenIdempotent ==
    /\ (fpc = "returned" /\ Len(fin.sig.shape) = 2 /\ fin.sig.shape[1] = 2) =>
          (fout.ok /\ fout.val = fin.sig)
    /\ fpc = "again" => (fout.ok /\ fout.val = fprev.val)

C7_Witness ==
    /\ fpc = "again"
    /\ fout.ok
    /\ fout.val.shape = <<2, 12>>
    /\ fout.val.data[2].lowpass

\* C8 as stated: for every mono input of n >= 1 samples and every sample
\* rate, widen returns two channels of exactly n samples each.
C8_Claim ==
    (fpc = "returned" /\ Len(fin.sig.shape) = 1 /\ fin.sig.shape[1] >= 1) =>
        /\ fout.ok
        /\ fout.val.shape = <<2, fin.sig.shape[1]>>
        /\ Len(fout.val.data[1].s) = fin.sig.shape[1]
        /\ Len(fout.val.data[2].s) = fin.sig.shape[1]

\* C9: enhance fails in the filter design exactly when the band does not
\* satisfy 0 < 60 Hz < 5000 Hz < sr / 2, that is exactly when sr <= 10000,
\* and then returns no signal; for every sr > 10000 the design succeeds.
C9_DesignFailsIffBandOutsideNyquist ==
    fpc = "returned" =>
        /\ (fout.err = "ValueError(butter)") <=> (fin.sr <= 10000)
        /\ (fout.err = "ValueError(butter)") <=>
              ~(0 < 60 /\ 60 < 5000 /\ 2 * 5000 < fin.sr)
        /\ fin.sr <= 10000 => (~fout.ok /\ fout.val = <<>>)
        /\ fin.sr > 10000 => butter(<<low_freq(fin.sr), high_freq(fin.sr)>>).ok

C9_Witness ==
    /\ fpc = "returned"
    /\ fin.sr = 10000
    /\ Len(fin.x) = 2
    /\ fout = Err("ValueError(butter)")

\* C10 as stated: when the command has finished with exit code 0, a file
\* exists at the output path.
C10_Claim ==
    (pc = "done" /\ exit_code = 0) => output \in DOMAIN files

\* C11 as stated: for every mono input whose samples all lie in [-1, 1], no
\* sample of either channel that widen returns has absolute value above 1.0.
C11_Claim ==
    (/\ fpc = "returned"
     /\ Len(fin.sig.shape) = 1
     /\ \A i \in 1..Len(fin.sig.data) : Abs(fin.sig.data[i]) <= Unit
     /\ fout.ok) =>
        \A c \in 1..2 : row_within_unit(fout.val.data[c])

\* C12 as stated: for a mono input x of N samples and d = floor(0.015 * sr),
\* the right channel before the lowpass has N samples, sample i being 0 for
\* i < d and x[i - d] for d <= i < N, and the left channel is 0.95 * x with
\* no delay.
C12_Claim ==
    (fpc = "returned" /\ Len(fin.sig.shape) = 1 /\ fin.sig.shape[1] >= 1) =>
        LET x == fin.sig.data
            N == Len(x)
            d == (15 * fin.sr) \div 1000
            right_channel == delayed(x, delay_samples(fin.sr))
        IN  /\ \A i \in 0..(N - 1) :
                  /\ i + 1 \in DOMAIN right_channel
                  /\ i < d => right_channel[i + 1] = 0
                  /\ i >= d => right_channel[i + 1] = x[i - d + 1]
            /\ fout.ok =>
                  /\ fout.val.data[1].s = x
                  /\ ~fout.val.data[1].lowpass
                  /\ fout.val.data[1].gain = Frac(95, 100)
                  /\ fout.val.data[2].s = right_channel

====
